---- MODULE Spec2Model ----
(***************************************************************************)
(* Model of the flecs world snapshot addon (src/addons/snapshot.c):        *)
(* ecs_snapshot_take, ecs_snapshot_take_w_iter, ecs_snapshot_restore       *)
(* (restore_unfiltered / restore_filtered) and ecs_snapshot_free, over a   *)
(* small world made of a table store, an entity index and the id counter   *)
(* world->stats.last_id.                                                   *)
(*                                                                         *)
(* Table ids and rows are 0-based as in the C code; TLA+ sequences are     *)
(* 1-based, so row r of a table is rows[r + 1] and leaf i is tables[i+1].  *)
(***************************************************************************)
EXTENDS Integers, Sequences, FiniteSets, TLC

(* ------------------------------ bounds -------------------------------- *)
MaxTableId == 2
MaxEntity == 2
MaxGen == 1
MaxVal == 1
MaxOps == 5
MaxPending == 1

TableIds == 0 .. MaxTableId
EntityIds == 1 .. MaxEntity
Vals == 0 .. MaxVal

(* Types (ecs_table_t.type).  A table whose type holds builtin components  *)
(* carries the EcsTableHasBuiltins flag.                                   *)
BuiltinType == "Builtin"
UserTypes == {"A", "B"}
Types == UserTypes \cup {BuiltinType}

(* ------------------------------ values -------------------------------- *)
(* Absent table (flecs_sparse_get returns NULL), absent leaf (zeroed       *)
(* ecs_table_leaf_t), absent snapshot.                                     *)
NoTable == [type |-> "none", rows |-> << >>]
NoLeaf == [table |-> FALSE, dangling |-> FALSE, type |-> "none",
           has_data |-> FALSE, aliased |-> FALSE, data |-> << >>]
NoRecord == [gen |-> 0, alive |-> FALSE, table |-> -1, row |-> 0]
NoIndex == [e \in EntityIds |-> NoRecord]
NoSnapshot == [live |-> FALSE, has_index |-> FALSE, entity_index |-> NoIndex,
               tables |-> << >>, last_id |-> 0]
(* No iterator; otherwise index is ecs_snapshot_iter_t.index, table the     *)
(* leaf index of the table yielded last, count and entities what the       *)
(* iterator reports for it, result the value of the last call of next;     *)
(* yielded (history) lists the leaf indices yielded so far and done          *)
(* (history) tells whether a call has returned false.                       *)
NoIter == [live |-> FALSE, table_count |-> 0, index |-> 0, table |-> -1, count |-> 0,
           entities |-> << >>, result |-> "none", yielded |-> << >>, done |-> FALSE]
NoWorld == [tables |-> [t \in TableIds |-> NoTable], eis |-> NoIndex, last_id |-> 0,
            iter |-> FALSE, selection |-> {}, settled |-> 0]

VARIABLES
    tables,     \* world->store.tables: table id -> table (or NoTable)
    eis,        \* ecs_eis(world): entity id -> record {generation, table, row}
    last_id,    \* world->stats.last_id
    snapshot,   \* the ecs_snapshot_t under consideration (or NoSnapshot)
    pc,         \* position of the running call
    idx,        \* loop variable i / l of the restore loops
    count,      \* restore_unfiltered: count, read once before the diff loop
    log,        \* notifications dispatched by the running restore, in order
    captured,   \* history: the world as it was when the snapshot was taken
    before,     \* history: the world as it was when restore was entered
    ops,        \* number of mutations the application has made so far
    pending,    \* deferred commands of the application that are not applied yet
    it          \* the ecs_iter_t made by ecs_snapshot_iter (or NoIter)

vars == << tables, eis, last_id, snapshot, pc, idx, count, log, captured, before,
           ops, pending, it >>

World == [tables |-> tables, eis |-> eis, last_id |-> last_id]

(* The world as a capture finds it, whether the capture was given an         *)
(* iterator, and the table ids that are offered to snapshot_table (every     *)
(* live table for a capture without iterator).                               *)
Captured(w, is_iter, selection) ==
    [tables |-> w.tables, eis |-> w.eis, last_id |-> w.last_id,
     iter |-> is_iter, selection |-> selection, settled |-> Len(pending)]

(* The world and the snapshot as ecs_snapshot_restore finds them. *)
Entered(w) == [tables |-> w.tables, eis |-> w.eis, last_id |-> w.last_id,
               snapshot |-> snapshot, settled |-> Len(pending)]

(* ------------------------- table store / tables ------------------------ *)
IsLive(ts, t) == t \in TableIds /\ ts[t].type # "none"

HasBuiltins(table) == table.type = BuiltinType

ecs_table_count(table) == Len(table.rows)

LiveIds(ts) == {t \in TableIds : IsLive(ts, t)}

Max(S) == CHOOSE x \in S : \A y \in S : y <= x

flecs_sparse_last_id(ts) == Max(LiveIds(ts))

FreeTableIds(ts) == TableIds \ LiveIds(ts)

TableOfType(ts, type) == CHOOSE t \in LiveIds(ts) : ts[t].type = type

TypeIsLive(ts, type) == \E t \in LiveIds(ts) : ts[t].type = type

(* ------------------------------ entities ------------------------------ *)
Ident(id, gen) == << id, gen >>

(* ecs_eis_get: the record of an identifier, NULL unless the id is alive    *)
(* with the identifier's generation.                                       *)
ecs_eis_get(index, e) == index[e[1]].alive /\ index[e[1]].gen = e[2]

(* The entity is alive and its record names the row that holds it. *)
Located(ts, index, e) ==
    /\ ecs_eis_get(index, e)
    /\ IsLive(ts, index[e[1]].table)
    /\ index[e[1]].row < Len(ts[index[e[1]].table].rows)
    /\ ts[index[e[1]].table].rows[index[e[1]].row + 1].e = e

LiveEntities(index) ==
    {Ident(id, index[id].gen) : id \in {x \in EntityIds : index[x].alive}}

Init ==
    /\ tables = [t \in TableIds |->
                    IF t = 0 THEN [type |-> BuiltinType, rows |-> << >>]
                    ELSE NoTable]
    /\ eis = NoIndex
    /\ last_id = 0
    /\ snapshot = NoSnapshot
    /\ pc = "idle"
    /\ idx = 0
    /\ count = 0
    /\ log = << >>
    /\ captured = NoWorld
    /\ before = [tables |-> [t \in TableIds |-> NoTable], eis |-> NoIndex,
                 last_id |-> 0, snapshot |-> NoSnapshot, settled |-> 0]
    /\ ops = 0
    /\ pending = << >>
    /\ it = NoIter

(* ----------------- table primitives used by the addon ------------------ *)
(* Remove row `row` of table t: the last row is moved into the hole and the  *)
(* record of the moved entity is pointed at its new row.  No notification.   *)
flecs_table_delete(w, t, row) ==
    LET rows == w.tables[t].rows
        n == Len(rows)
        last == rows[n]
        kept == SubSeq(rows, 1, n - 1)
    IN  IF row + 1 = n
        THEN [w EXCEPT !.tables[t].rows = kept]
        ELSE [w EXCEPT !.tables[t].rows = [kept EXCEPT ![row + 1] = last],
                       !.eis[last.e[1]].row = row]

(* Destruct the contents of a table's data; dispatches no notification and   *)
(* leaves the entity index alone.                                            *)
flecs_table_clear_data(ts, t) == [ts EXCEPT ![t].rows = << >>]

(* Fresh, empty storage for a table. *)
flecs_table_init_data(ts, t) == [ts EXCEPT ![t].rows = << >>]

(* Install `data` as the table's data (ownership transfer), discarding what  *)
(* the table held.                                                           *)
flecs_table_replace_data(ts, t, data) ==
    [flecs_table_clear_data(ts, t) EXCEPT ![t].rows = data]

(* ecs_eis_set_generation: the index's generation of the id becomes the      *)
(* identifier's.                                                             *)
ecs_eis_set_generation(index, e) == [index EXCEPT ![e[1]].gen = e[2]]

(* flecs_table_merge(world, table, table, &table->storage, data): the rows   *)
(* of data are appended to the table and the record of each merged entity    *)
(* (ecs_eis_ensure) is pointed at its new row.                               *)
RECURSIVE MergeRecords(_, _, _, _, _)
MergeRecords(index, t, data, base, k) ==
    IF k > Len(data) THEN index
    ELSE MergeRecords(
            [index EXCEPT ![data[k].e[1]] =
                [gen |-> index[data[k].e[1]].gen, alive |-> TRUE,
                 table |-> t, row |-> base + k - 1]],
            t, data, base, k + 1)

flecs_table_merge(w, t, data) ==
    [w EXCEPT !.tables[t].rows = w.tables[t].rows \o data,
              !.eis = MergeRecords(w.eis, t, data, Len(w.tables[t].rows), 1)]

(* The log records, in order, the notifications dispatched by the running    *)
(* restore and the case each step of the diff took: id is the table id or    *)
(* leaf index the entry is about, table the table acted on.                  *)
Entry(kind, id, t, row, n) ==
    [kind |-> kind, id |-> id, table |-> t, row |-> row, count |-> n]
OnSet(t, row, n) == Entry("OnSet", t, t, row, n)
OnRemove(t, row, n) == Entry("OnRemove", t, t, row, n)
DiffCase(kind, id, t) == Entry(kind, id, t, 0, 0)

(* What happens to the memory a snapshot owns is logged as well: the cloned   *)
(* type of leaf i is released, the contents of its cloned data are released   *)
(* or become the contents of table t, the entity index clone is released.     *)
FreeType(i) == Entry("FreeType", i, i, 0, 0)
FreeData(i) == Entry("FreeData", i, i, 0, 0)
Transfer(i, t) == Entry("Transfer", i, t, 0, 0)
FreeIndex == Entry("FreeIndex", 0, 0, 0, 0)

flecs_notify_on_set(lg, t, row, n) == Append(lg, OnSet(t, row, n))

(* flecs_delete_table: "Deleting a table invokes OnRemove triggers & updates *)
(* the entity index" for the rows the table still holds, then the table      *)
(* leaves the store.                                                         *)
RECURSIVE DropRecords(_, _, _)
DropRecords(index, rows, k) ==
    IF k > Len(rows) THEN index
    ELSE DropRecords(
            IF ecs_eis_get(index, rows[k].e)
            THEN [index EXCEPT ![rows[k].e[1]] =
                    [gen |-> index[rows[k].e[1]].gen + 1, alive |-> FALSE,
                     table |-> -1, row |-> 0]]
            ELSE index,
            rows, k + 1)

flecs_delete_table(w, lg, t) ==
    [tables |-> [w.tables EXCEPT ![t] = NoTable],
     eis |-> DropRecords(w.eis, w.tables[t].rows, 1),
     log |-> IF Len(w.tables[t].rows) > 0
             THEN Append(lg, OnRemove(t, 0, Len(w.tables[t].rows)))
             ELSE lg]

(* The indices of the leaves that have a table. *)
PopulatedLeaves(snap) == {i \in 0 .. Len(snap.tables) - 1 : snap.tables[i + 1].table}

(* A leaf's table pointer dangles once the table it was taken from is freed. *)
MarkDangling(snap, t) ==
    IF snap.live /\ t + 1 <= Len(snap.tables) /\ snap.tables[t + 1].table
    THEN [snap EXCEPT !.tables[t + 1].dangling = TRUE]
    ELSE snap

(* A write to the storage of a table is a write to every leaf whose data     *)
(* shares that storage.                                                      *)
Aliasing(snap, ts) ==
    [snap EXCEPT !.tables =
        [k \in DOMAIN snap.tables |->
            IF snap.tables[k].aliased /\ ~snap.tables[k].dangling
            THEN [snap.tables[k] EXCEPT !.data = ts[k - 1].rows]
            ELSE snap.tables[k]]]

(* ------------------- the application mutating the world ----------------- *)
(* flecs_table_find_or_create for a type that has no table: the new table    *)
(* takes an id that no live table has.                                       *)
NewTable(type, t) ==
    /\ pc = "idle"
    /\ ops < MaxOps
    /\ ops' = ops + 1
    /\ type \in UserTypes
    /\ ~TypeIsLive(tables, type)
    /\ t \in FreeTableIds(tables)
    /\ tables' = [tables EXCEPT ![t] = [type |-> type, rows |-> << >>]]
    /\ UNCHANGED << it, pending, eis, last_id, snapshot, pc, idx, count, log, captured, before >>

(* The application deletes an empty, non-internal table. *)
DeleteTable(t) ==
    /\ pc = "idle"
    /\ ops < MaxOps
    /\ ops' = ops + 1
    /\ IsLive(tables, t)
    /\ ~HasBuiltins(tables[t])
    /\ ecs_table_count(tables[t]) = 0
    /\ tables' = flecs_delete_table(World, log, t).tables
    /\ snapshot' = MarkDangling(snapshot, t)
    /\ UNCHANGED << it, pending, eis, last_id, pc, idx, count, log, captured, before >>

(* ecs_new: a dead id is recycled with its bumped generation, otherwise the  *)
(* next id is issued; the entity is appended to table t.                     *)
NewEntity(id, t, v) ==
    /\ pc = "idle"
    /\ ops < MaxOps
    /\ ops' = ops + 1
    /\ IsLive(tables, t)
    /\ id \in EntityIds
    /\ ~eis[id].alive
    /\ IF \E d \in 1 .. last_id : ~eis[d].alive
       THEN id <= last_id /\ last_id' = last_id
       ELSE id = last_id + 1 /\ last_id' = id
    /\ tables' = [tables EXCEPT ![t].rows =
                    Append(@, [e |-> Ident(id, eis[id].gen), v |-> v])]
    /\ eis' = [eis EXCEPT ![id] = [gen |-> eis[id].gen, alive |-> TRUE,
                                   table |-> t, row |-> Len(tables[t].rows)]]
    /\ snapshot' = Aliasing(snapshot, tables')
    /\ UNCHANGED << it, pending, pc, idx, count, log, captured, before >>

(* ecs_delete: the row is removed, the record is reset and the generation    *)
(* of the id is increased.                                                   *)
DeleteEntity(id) ==
    /\ pc = "idle"
    /\ ops < MaxOps
    /\ ops' = ops + 1
    /\ id \in EntityIds
    /\ Located(tables, eis, Ident(id, eis[id].gen))
    /\ eis[id].gen < MaxGen
    /\ LET w == flecs_table_delete(World, eis[id].table, eis[id].row)
       IN  /\ tables' = w.tables
           /\ eis' = [w.eis EXCEPT ![id] = [gen |-> eis[id].gen + 1, alive |-> FALSE,
                                            table |-> -1, row |-> 0]]
    /\ snapshot' = Aliasing(snapshot, tables')
    /\ UNCHANGED << it, pending, last_id, pc, idx, count, log, captured, before >>

(* ecs_add / ecs_remove: the entity moves to the table of its new type. *)
MoveEntity(id, t) ==
    /\ pc = "idle"
    /\ ops < MaxOps
    /\ ops' = ops + 1
    /\ id \in EntityIds
    /\ Located(tables, eis, Ident(id, eis[id].gen))
    /\ IsLive(tables, t)
    /\ t # eis[id].table
    /\ LET row == tables[eis[id].table].rows[eis[id].row + 1]
           w == flecs_table_delete(World, eis[id].table, eis[id].row)
       IN  /\ tables' = [w.tables EXCEPT ![t].rows = Append(@, row)]
           /\ eis' = [w.eis EXCEPT ![id].table = t, ![id].row = Len(tables[t].rows)]
    /\ snapshot' = Aliasing(snapshot, tables')
    /\ UNCHANGED << it, pending, last_id, pc, idx, count, log, captured, before >>

(* ecs_set: a component value of the entity changes. *)
SetValue(id, v) ==
    /\ pc = "idle"
    /\ ops < MaxOps
    /\ ops' = ops + 1
    /\ id \in EntityIds
    /\ Located(tables, eis, Ident(id, eis[id].gen))
    /\ tables[eis[id].table].rows[eis[id].row + 1].v # v
    /\ tables' = [tables EXCEPT ![eis[id].table].rows[eis[id].row + 1].v = v]
    /\ snapshot' = Aliasing(snapshot, tables')
    /\ UNCHANGED << it, pending, eis, last_id, pc, idx, count, log, captured, before >>

Mutate ==
    \/ \E type \in UserTypes, t \in TableIds : NewTable(type, t)
    \/ \E t \in TableIds : DeleteTable(t)
    \/ \E id \in EntityIds, t \in TableIds, v \in Vals : NewEntity(id, t, v)
    \/ \E id \in EntityIds : DeleteEntity(id)
    \/ \E id \in EntityIds, t \in TableIds : MoveEntity(id, t)
    \/ \E id \in EntityIds, v \in Vals : SetValue(id, v)

(* --------------------------- deferred commands ------------------------- *)
(* A command the application has issued in deferred mode: it names the       *)
(* entity by its identifier and takes effect when the queue is applied.      *)
Commands ==
    [op : {"set"}, e : EntityIds \X (0 .. MaxGen), v : Vals]
        \cup [op : {"delete"}, e : EntityIds \X (0 .. MaxGen), v : {0}]

(* One command applied to the world; a command for an identifier that is no  *)
(* longer alive does nothing.                                                *)
ApplyCommand(w, c) ==
    IF ~Located(w.tables, w.eis, c.e)
    THEN w
    ELSE LET id == c.e[1]
             r == w.eis[id]
         IN  IF c.op = "set"
             THEN [w EXCEPT !.tables[r.table].rows[r.row + 1].v = c.v]
             ELSE LET d == flecs_table_delete(w, r.table, r.row)
                  IN  [tables |-> d.tables,
                       eis |-> [d.eis EXCEPT ![id] =
                                   [gen |-> r.gen + 1, alive |-> FALSE,
                                    table |-> -1, row |-> 0]],
                       last_id |-> w.last_id]

RECURSIVE ApplyPending(_, _, _)
ApplyPending(w, q, k) ==
    IF k > Len(q) THEN w ELSE ApplyPending(ApplyCommand(w, q[k]), q, k + 1)

(* Variant of ecs_force_aperiodic that leaves the queue as it is. *)
ecs_force_aperiodic_Nothing(w, q) == [world |-> w, pending |-> q]

(* ecs_force_aperiodic: every pending command is applied to the world, in    *)
(* the order of issue, and the queue is empty afterwards.                    *)
ecs_force_aperiodic(w, q) == [world |-> ApplyPending(w, q, 1), pending |-> << >>]

(* The application issues a command in deferred mode. *)
Defer(c) ==
    /\ pc = "idle"
    /\ ops < MaxOps
    /\ ops' = ops + 1
    /\ Len(pending) < MaxPending
    /\ c \in Commands
    /\ Located(tables, eis, c.e)
    /\ c.op = "set" => tables[eis[c.e[1]].table].rows[eis[c.e[1]].row + 1].v # c.v
    /\ c.op = "delete" => c.e[2] < MaxGen
    /\ pending' = Append(pending, c)
    /\ UNCHANGED << it, tables, eis, last_id, snapshot, pc, idx, count, log, captured,
                    before >>

(* ------------------------------- capture ------------------------------- *)
NoData == [has_data |-> FALSE, aliased |-> FALSE, data |-> << >>]

(* duplicate_data: NULL for a table without rows, otherwise a copy of the    *)
(* entity ids and of every column.                                           *)
(* aliased tells whether the result shares its vectors with the table's     *)
(* storage: the entity vector and every column are copied, so it does not.   *)
(* Variant of duplicate_data that copies the ecs_data_t and not its vectors. *)
duplicate_data_Shallow(table) ==
    IF ecs_table_count(table) = 0
    THEN NoData
    ELSE [has_data |-> TRUE, aliased |-> TRUE, data |-> table.rows]

duplicate_data(table) ==
    IF ecs_table_count(table) = 0
    THEN NoData
    ELSE [has_data |-> TRUE,
          aliased |-> FALSE,
          data |-> [k \in 1 .. Len(table.rows) |->
                        [e |-> table.rows[k].e, v |-> table.rows[k].v]]]

(* Variant of snapshot_table without the test of EcsTableHasBuiltins. *)
snapshot_table_NoBuiltinCheck(l, table) ==
    [table |-> TRUE, dangling |-> FALSE, type |-> table.type,
     has_data |-> duplicate_data(table).has_data,
     aliased |-> duplicate_data(table).aliased,
     data |-> duplicate_data(table).data]

(* snapshot_table: the leaf l after the table was offered to the snapshot. *)
snapshot_table(l, table) ==
    IF HasBuiltins(table)
    THEN l
    ELSE [table |-> TRUE, dangling |-> FALSE, type |-> table.type,
          has_data |-> duplicate_data(table).has_data,
          aliased |-> duplicate_data(table).aliased,
          data |-> duplicate_data(table).data]

(* snapshot_create sizes the leaf array from the last table id. *)
TableCount(ts) == flecs_sparse_last_id(ts) + 1

(* The loop over t < table_count passes flecs_sparse_get's result to         *)
(* snapshot_table, which reads table->flags: a null pointer for an id that   *)
(* has no live table.                                                        *)
ReadsNullTable(ts) == \E t \in 0 .. TableCount(ts) - 1 : ~IsLive(ts, t)

(* Variant of snapshot_create that copies the entity index also when it is   *)
(* given an iterator.                                                        *)
snapshot_create_AlwaysIndex(w, is_iter, selection) ==
    [live |-> TRUE,
     has_index |-> TRUE,
     entity_index |-> w.eis,
     tables |-> [k \in 1 .. TableCount(w.tables) |->
                    IF is_iter
                    THEN IF (k - 1) \in selection
                         THEN snapshot_table(NoLeaf, w.tables[k - 1])
                         ELSE NoLeaf
                    ELSE snapshot_table(NoLeaf, w.tables[k - 1])],
     last_id |-> 0]

snapshot_create(w, is_iter, selection) ==
    [live |-> TRUE,
     has_index |-> ~is_iter,
     entity_index |-> IF is_iter THEN NoIndex ELSE w.eis,
     tables |-> [k \in 1 .. TableCount(w.tables) |->
                    IF is_iter
                    THEN IF (k - 1) \in selection
                         THEN snapshot_table(NoLeaf, w.tables[k - 1])
                         ELSE NoLeaf
                    ELSE snapshot_table(NoLeaf, w.tables[k - 1])],
     last_id |-> 0]

(* Variant of ecs_snapshot_take that takes the storage of the tables it      *)
(* captures instead of copying it.                                           *)
ecs_snapshot_take_Moving ==
    /\ pc = "idle"
    /\ ~snapshot.live
    /\ LET s == ecs_force_aperiodic(World, pending)
           w == s.world
       IN  /\ ~ReadsNullTable(w.tables)
           /\ snapshot' = [snapshot_create(w, FALSE, {}) EXCEPT !.last_id = w.last_id]
           /\ captured' = Captured(w, FALSE, LiveIds(w.tables))
           /\ tables' = [t \in TableIds |->
                           IF IsLive(w.tables, t) /\ ~HasBuiltins(w.tables[t])
                           THEN [w.tables[t] EXCEPT !.rows = << >>]
                           ELSE w.tables[t]]
           /\ eis' = w.eis
           /\ pending' = s.pending
    /\ UNCHANGED << it, ops, last_id, pc, idx, count, log, before >>

ecs_snapshot_take ==
    /\ pc = "idle"
    /\ ~snapshot.live
    /\ LET s == ecs_force_aperiodic(World, pending)
           w == s.world
       IN  /\ tables' = w.tables
           /\ eis' = w.eis
           /\ pending' = s.pending
           /\ IF ReadsNullTable(w.tables)
              THEN /\ pc' = "take_crashed"
                   /\ UNCHANGED << snapshot, captured >>
              ELSE /\ snapshot' = [snapshot_create(w, FALSE, {})
                                      EXCEPT !.last_id = w.last_id]
                   /\ captured' = Captured(w, FALSE, LiveIds(w.tables))
                   /\ pc' = "idle"
    /\ UNCHANGED << it, ops, last_id, idx, count, log, before >>

(* The iterator yields the tables of a selection of the live tables. *)
ecs_snapshot_take_w_iter(selection) ==
    /\ pc = "idle"
    /\ ~snapshot.live
    /\ selection \subseteq LiveIds(tables)
    /\ LET s == ecs_force_aperiodic(World, pending)
           w == s.world
       IN  /\ tables' = w.tables
           /\ eis' = w.eis
           /\ pending' = s.pending
           /\ snapshot' = [snapshot_create(w, TRUE, selection)
                              EXCEPT !.last_id = w.last_id]
           /\ captured' = Captured(w, TRUE, selection)
    /\ UNCHANGED << it, ops, last_id, pc, idx, count, log, before >>

(* --------------------------- unfiltered restore ------------------------- *)

(* flecs_sparse_restore: the world's entity index becomes the clone. *)
flecs_sparse_restore(index, clone) == clone

(* Upper bound of the diff loop: for (i = 0; i <= count; i ++). *)
DiffCount(ts, snap) == flecs_sparse_last_id(ts)

(* ecs_snapshot_restore on a snapshot with an entity index, up to the diff   *)
(* loop of restore_unfiltered.                                               *)
RestoreUnfilteredBegin ==
    /\ pc = "idle"
    /\ snapshot.live
    /\ snapshot.has_index
    /\ LET s == ecs_force_aperiodic(World, pending)
           w == s.world
       IN  /\ tables' = w.tables
           /\ pending' = s.pending
           /\ snapshot' = Aliasing(snapshot, w.tables)
           /\ eis' = flecs_sparse_restore(w.eis, snapshot.entity_index)
           /\ count' = DiffCount(w.tables, snapshot)
           /\ before' = Entered(w)
    /\ last_id' = snapshot.last_id
    /\ idx' = 0
    /\ pc' = "diff"
    /\ log' = << FreeIndex >>
    /\ UNCHANGED << it, ops, captured >>

(* The leaf the diff pairs with table id i (NULL when i is past the leaf     *)
(* array or the leaf has no table).                                          *)
LeafAt(snap, i) ==
    IF i < Len(snap.tables) /\ snap.tables[i + 1].table
    THEN snap.tables[i + 1]
    ELSE NoLeaf

AfterDiff == IF idx + 1 > count THEN "notify" ELSE "diff"

(* World table flagged EcsTableHasBuiltins: continue. *)
DiffBuiltin ==
    /\ pc = "diff"
    /\ IsLive(tables, idx) /\ HasBuiltins(tables[idx])
    /\ idx' = idx + 1
    /\ pc' = AfterDiff
    /\ UNCHANGED << it, pending, ops, tables, eis, last_id, snapshot, count, log, captured, before >>

(* !world_table && snapshot_table: the table is reinserted through           *)
(* flecs_table_find_or_create; a new table takes an id no live table has.    *)
InstallLeaf(ts, t, leaf) ==
    IF leaf.has_data THEN flecs_table_replace_data(ts, t, leaf.data) ELSE ts

(* The memory of leaf i once the diff has paired it with table t: data, when  *)
(* present, went to the table through flecs_table_replace_data, and the end   *)
(* of the loop body frees the data shell and the type.                        *)
LeafConsumed(lg, i, t, leaf) ==
    Append(IF leaf.has_data THEN Append(lg, Transfer(i, t)) ELSE lg, FreeType(i))

DiffSnapshotOnly ==
    /\ pc = "diff"
    /\ ~IsLive(tables, idx)
    /\ LeafAt(snapshot, idx).table
    /\ LET leaf == LeafAt(snapshot, idx)
       IN  IF TypeIsLive(tables, leaf.type)
           THEN /\ tables' = InstallLeaf(tables, TableOfType(tables, leaf.type), leaf)
                /\ log' = LeafConsumed(
                            Append(log, DiffCase("SnapshotOnly", idx,
                                                 TableOfType(tables, leaf.type))),
                            idx, TableOfType(tables, leaf.type), leaf)
           ELSE \E t \in FreeTableIds(tables) :
                    /\ tables' = InstallLeaf(
                            [tables EXCEPT ![t] = [type |-> leaf.type, rows |-> << >>]],
                            t, leaf)
                    /\ log' = LeafConsumed(
                                Append(log, DiffCase("SnapshotOnly", idx, t)),
                                idx, t, leaf)
    /\ idx' = idx + 1
    /\ pc' = AfterDiff
    /\ UNCHANGED << it, pending, ops, eis, last_id, snapshot, count, captured, before >>

(* world_table && snapshot_table: the data of the world table is replaced.   *)
(* ecs_assert(snapshot_table->table == world_table) compares a dangling      *)
(* pointer when the leaf's table was freed since capture: it may compare     *)
(* equal (the slot of the id was reused) or abort.                           *)
ReplaceOrClear(ts, t, leaf) ==
    IF leaf.has_data
    THEN flecs_table_replace_data(ts, t, leaf.data)
    ELSE flecs_table_init_data(flecs_table_clear_data(ts, t), t)

DiffBoth ==
    /\ pc = "diff"
    /\ IsLive(tables, idx) /\ ~HasBuiltins(tables[idx])
    /\ LeafAt(snapshot, idx).table
    /\ \E equal \in (IF LeafAt(snapshot, idx).dangling THEN BOOLEAN ELSE {TRUE}) :
         IF equal
         THEN /\ tables' = ReplaceOrClear(tables, idx, LeafAt(snapshot, idx))
              /\ log' = LeafConsumed(Append(log, DiffCase("Both", idx, idx)),
                                      idx, idx, LeafAt(snapshot, idx))
              /\ idx' = idx + 1
              /\ pc' = AfterDiff
         ELSE /\ pc' = "aborted"
              /\ UNCHANGED << tables, idx, log >>
    /\ UNCHANGED << it, pending, ops, eis, last_id, snapshot, count, captured, before >>

(* world_table && !snapshot_table: the table was created after the snapshot  *)
(* was taken; its data is cleared and the table is deleted.                  *)
(* Variants of DiscardTable with one of its two calls left out. *)
DiscardTable_ClearOnly(w, lg, t) ==
    [tables |-> flecs_table_clear_data(w.tables, t), eis |-> w.eis, log |-> lg]

DiscardTable_NoClear(w, lg, t) == flecs_delete_table(w, lg, t)

DiscardTable(w, lg, t) ==
    flecs_delete_table([w EXCEPT !.tables = flecs_table_clear_data(w.tables, t)], lg, t)

DiffWorldOnly ==
    /\ pc = "diff"
    /\ IsLive(tables, idx) /\ ~HasBuiltins(tables[idx])
    /\ ~LeafAt(snapshot, idx).table
    /\ LET r == DiscardTable(World, Append(log, DiffCase("WorldOnly", idx, idx)), idx)
       IN  /\ tables' = r.tables
           /\ eis' = r.eis
           /\ log' = r.log
    /\ idx' = idx + 1
    /\ pc' = AfterDiff
    /\ UNCHANGED << it, pending, ops, last_id, snapshot, count, captured, before >>

(* No world table and no snapshot table: nothing to be done. *)
DiffNeither ==
    /\ pc = "diff"
    /\ ~IsLive(tables, idx)
    /\ ~LeafAt(snapshot, idx).table
    /\ idx' = idx + 1
    /\ pc' = AfterDiff
    /\ UNCHANGED << it, pending, ops, tables, eis, last_id, snapshot, count, log, captured, before >>

(* The closing loop of restore_unfiltered over the live tables, then          *)
(* ecs_snapshot_restore frees the snapshot.                                  *)
(* Variant of NotifyTable without the test of tcount. *)
NotifyTable_NoCountCheck(ts, lg, t) ==
    IF IsLive(ts, t) /\ ~HasBuiltins(ts[t])
    THEN flecs_notify_on_set(lg, t, 0, ecs_table_count(ts[t]))
    ELSE lg

NotifyTable(ts, lg, t) ==
    IF IsLive(ts, t) /\ ~HasBuiltins(ts[t]) /\ ecs_table_count(ts[t]) # 0
    THEN flecs_notify_on_set(lg, t, 0, ecs_table_count(ts[t]))
    ELSE lg

RECURSIVE NotifyTables(_, _, _)
NotifyTables(ts, lg, t) ==
    IF t > MaxTableId THEN lg
    ELSE NotifyTables(ts, NotifyTable(ts, lg, t), t + 1)

RestoreUnfilteredEnd ==
    /\ pc = "notify"
    /\ log' = NotifyTables(tables, log, 0)
    /\ snapshot' = NoSnapshot
    /\ pc' = "restored_unfiltered"
    /\ UNCHANGED << it, pending, ops, tables, eis, last_id, idx, count, captured, before >>

restore_unfiltered ==
    \/ RestoreUnfilteredBegin
    \/ DiffBuiltin
    \/ DiffSnapshotOnly
    \/ DiffBoth
    \/ DiffWorldOnly
    \/ DiffNeither
    \/ RestoreUnfilteredEnd

(* ---------------------------- filtered restore -------------------------- *)
(* ecs_snapshot_restore on a snapshot without an entity index, up to the     *)
(* leaf loop of restore_filtered.                                            *)
RestoreFilteredBegin ==
    /\ pc = "idle"
    /\ snapshot.live
    /\ ~snapshot.has_index
    /\ LET s == ecs_force_aperiodic(World, pending)
           w == s.world
       IN  /\ tables' = w.tables
           /\ eis' = w.eis
           /\ pending' = s.pending
           /\ snapshot' = Aliasing(snapshot, w.tables)
           /\ before' = Entered(w)
    /\ idx' = 0
    /\ pc' = "merge"
    /\ log' = << >>
    /\ UNCHANGED << it, ops, last_id, count, captured >>

AfterMerge == IF idx + 1 < Len(snapshot.tables) THEN "merge" ELSE "restored_filtered"

SnapshotAfterMerge == IF idx + 1 < Len(snapshot.tables) THEN snapshot ELSE NoSnapshot

(* Leaf without a table, or without data: continue. *)
MergeSkip ==
    /\ pc = "merge"
    /\ ~snapshot.tables[idx + 1].table \/ ~snapshot.tables[idx + 1].has_data
    /\ log' = IF snapshot.tables[idx + 1].table THEN Append(log, FreeType(idx)) ELSE log
    /\ idx' = idx + 1
    /\ pc' = AfterMerge
    /\ snapshot' = SnapshotAfterMerge
    /\ UNCHANGED << it, pending, ops, tables, eis, last_id, count, captured, before >>

(* The loop over the leaf's entities: an entity that has a record with a     *)
(* table is deleted from that table, for any other the generation is set.    *)
(* Variant of RemoveEntity that leaves the generation of the id alone. *)
RemoveEntity_KeepGeneration(w, e) ==
    IF ecs_eis_get(w.eis, e) /\ w.eis[e[1]].table # -1
    THEN flecs_table_delete(w, w.eis[e[1]].table, w.eis[e[1]].row)
    ELSE w

RemoveEntity(w, e) ==
    IF ecs_eis_get(w.eis, e) /\ w.eis[e[1]].table # -1
    THEN flecs_table_delete(w, w.eis[e[1]].table, w.eis[e[1]].row)
    ELSE [w EXCEPT !.eis = ecs_eis_set_generation(w.eis, e)]

RECURSIVE RemoveCaptured(_, _, _)
RemoveCaptured(w, data, k) ==
    IF k > Len(data) THEN w
    ELSE RemoveCaptured(RemoveEntity(w, data[k].e), data, k + 1)

(* Variant of MergeInto that notifies from row 0 instead of old_count. *)
MergeInto_NotifyFromZero(w, lg, t, data) ==
    LET m == flecs_table_merge(w, t, data)
    IN  [tables |-> m.tables,
         eis |-> m.eis,
         log |-> IF Len(data) # 0
                 THEN flecs_notify_on_set(lg, t, 0, Len(data))
                 ELSE lg]

(* Merge of the leaf's data into `table`, then OnSet for the merged rows. *)
MergeInto(w, lg, t, data) ==
    LET old_count == ecs_table_count(w.tables[t])
        new_count == Len(data)
        m == flecs_table_merge(w, t, data)
    IN  [tables |-> m.tables,
         eis |-> m.eis,
         log |-> IF new_count # 0
                 THEN flecs_notify_on_set(lg, t, old_count, new_count)
                 ELSE lg]

(* One leaf with data.  table = snapshot_table->table is the pointer taken   *)
(* at capture: when that table was freed since, reading its count and        *)
(* merging into it uses a dangling pointer, which either reaches whatever    *)
(* table now occupies the slot of the id or brings the process down.         *)
MergeLeaf ==
    /\ pc = "merge"
    /\ snapshot.tables[idx + 1].table /\ snapshot.tables[idx + 1].has_data
    /\ LET leaf == snapshot.tables[idx + 1]
           w == RemoveCaptured(World, leaf.data, 1)
       IN  \E valid \in (IF leaf.dangling
                         THEN (IF IsLive(tables, idx) THEN BOOLEAN ELSE {FALSE})
                         ELSE {TRUE}) :
             IF valid
             THEN LET r == MergeInto(w, Append(log, Transfer(idx, idx)), idx, leaf.data)
                  IN  /\ tables' = r.tables
                      /\ eis' = r.eis
                      /\ log' = Append(r.log, FreeType(idx))
                      /\ idx' = idx + 1
                      /\ pc' = AfterMerge
                      /\ snapshot' = SnapshotAfterMerge
             ELSE /\ tables' = w.tables
                  /\ eis' = w.eis
                  /\ pc' = "crashed"
                  /\ UNCHANGED << log, idx, snapshot >>
    /\ UNCHANGED << it, pending, ops, last_id, count, captured, before >>

restore_filtered ==
    \/ RestoreFilteredBegin
    \/ MergeSkip
    \/ MergeLeaf

(* The loop of ecs_snapshot_free over the leaves: a leaf with a table has    *)
(* its data, when present, cleared and freed, and its type freed.            *)
FreeLeaf(lg, i, leaf) ==
    IF leaf.table
    THEN Append(IF leaf.has_data THEN Append(lg, FreeData(i)) ELSE lg, FreeType(i))
    ELSE lg

RECURSIVE FreeLeaves(_, _, _)
FreeLeaves(snap, lg, i) ==
    IF i >= Len(snap.tables) THEN lg
    ELSE FreeLeaves(snap, FreeLeaf(lg, i, snap.tables[i + 1]), i + 1)

(* flecs_table_clear_data(snapshot->world, table, data) is handed the leaf's  *)
(* table pointer to destruct the data: a leaf with data whose table was      *)
(* freed since capture makes it read through a dangling pointer.             *)
FreeReadsDangling(snap) ==
    \E i \in PopulatedLeaves(snap) :
        snap.tables[i + 1].has_data /\ snap.tables[i + 1].dangling

(* ecs_snapshot_free: the snapshot is released without touching the world.   *)
(* flecs_sparse_free of a snapshot without entity index frees nothing.  The  *)
(* world that is left is the world of a run in which no snapshot was taken,  *)
(* so the run is followed no further.                                        *)
ecs_snapshot_free ==
    /\ pc = "idle"
    /\ snapshot.live
    /\ before' = [Entered(World) EXCEPT !.settled = 0]
    /\ \E valid \in (IF FreeReadsDangling(snapshot) THEN BOOLEAN ELSE {TRUE}) :
          IF valid
          THEN /\ log' = FreeLeaves(snapshot,
                            IF snapshot.has_index THEN << FreeIndex >> ELSE << >>, 0)
               /\ snapshot' = NoSnapshot
               /\ pc' = "freed"
          ELSE /\ pc' = "free_crashed"
               /\ UNCHANGED << log, snapshot >>
    /\ UNCHANGED << it, pending, ops, tables, eis, last_id, idx, count, captured >>

(* ------------------------------ iteration ------------------------------ *)
Min(S) == CHOOSE x \in S : \A y \in S : x <= y

(* ecs_snapshot_iter: an iterator over the leaves, positioned at leaf 0. *)
ecs_snapshot_iter ==
    /\ pc = "idle"
    /\ snapshot.live
    /\ ~it.live
    /\ it' = [NoIter EXCEPT !.live = TRUE, !.table_count = Len(snapshot.tables)]
    /\ UNCHANGED << tables, eis, last_id, snapshot, pc, idx, count, log, captured,
                    before, ops, pending >>

(* The values ecs_table_count(table) can read through the leaf's table       *)
(* pointer: the row count the table has now, or anything when the table was  *)
(* freed.                                                                    *)
CountRead(ts, i, leaf) ==
    IF leaf.dangling THEN 0 .. MaxEntity ELSE {ecs_table_count(ts[i])}

(* ecs_snapshot_next: the first leaf at or after iter->index that has a      *)
(* table is yielded and iter->index moves past it; false when there is none. *)
(* Reading the row count of a freed table may also end the program.          *)
ecs_snapshot_next ==
    /\ pc = "idle"
    /\ it.live
    /\ LET leaves == snapshot.tables
           found == {i \in it.index .. Len(leaves) - 1 : leaves[i + 1].table}
       IN  IF found = {}
           THEN /\ it' = [it EXCEPT !.result = "false", !.done = TRUE]
                /\ pc' = pc
           ELSE LET i == Min(found)
                    leaf == leaves[i + 1]
                IN  \/ /\ \E n \in CountRead(tables, i, leaf) :
                             it' = [it EXCEPT
                                      !.table = i,
                                      !.count = n,
                                      !.entities = IF leaf.has_data
                                                   THEN [k \in DOMAIN leaf.data |->
                                                            leaf.data[k].e]
                                                   ELSE << >>,
                                      !.index = i + 1,
                                      !.result = "true",
                                      !.yielded = Append(@, i)]
                       /\ pc' = pc
                    \/ /\ leaf.dangling
                       /\ pc' = "next_crashed"
                       /\ it' = it
    /\ UNCHANGED << tables, eis, last_id, snapshot, idx, count, log, captured, before,
                    ops, pending >>

TakeWIter == \E selection \in SUBSET TableIds : ecs_snapshot_take_w_iter(selection)

(* Whole-world snapshots: capture, mutate, restore or free. *)
Next ==
    \/ Mutate
    \/ ecs_snapshot_take
    \/ restore_unfiltered
    \/ ecs_snapshot_free

Spec == Init /\ [][Next]_vars

(* Filtered snapshots: capture with a selection, mutate, restore or free. *)
NextFiltered ==
    \/ Mutate
    \/ TakeWIter
    \/ restore_filtered
    \/ ecs_snapshot_free

SpecFiltered == Init /\ [][NextFiltered]_vars

(* Snapshots of either kind, with the application changing only which       *)
(* tables and entities exist and where the entities are (every value is 0).  *)
MutateShape ==
    \/ \E type \in UserTypes, t \in TableIds : NewTable(type, t)
    \/ \E t \in TableIds : DeleteTable(t)
    \/ \E id \in EntityIds, t \in TableIds : NewEntity(id, t, 0)
    \/ \E id \in EntityIds : DeleteEntity(id)
    \/ \E id \in EntityIds, t \in TableIds : MoveEntity(id, t)

NextShape ==
    \/ MutateShape
    \/ ecs_snapshot_take
    \/ TakeWIter
    \/ restore_unfiltered
    \/ restore_filtered
    \/ ecs_snapshot_free

SpecShape == Init /\ [][NextShape]_vars

(* Capture and discard of snapshots of either kind: the application changes  *)
(* which tables and entities exist at any time, and the values of entities   *)
(* while a snapshot is held.                                                 *)
MutateHeld == \E id \in EntityIds, v \in Vals : snapshot.live /\ SetValue(id, v)

NextHeld ==
    \/ MutateShape
    \/ MutateHeld
    \/ ecs_snapshot_take
    \/ TakeWIter
    \/ ecs_snapshot_free

SpecHeld == Init /\ [][NextHeld]_vars

(* Capture and restore of snapshots of either kind (the iterator of a        *)
(* filtered capture yields every table) while the application is in          *)
(* deferred mode: it creates and deletes tables and creates entities at      *)
(* once, and sets values and deletes entities through commands that stay     *)
(* pending until something applies them.                                     *)
MutateDeferred ==
    \/ \E type \in UserTypes, t \in TableIds : NewTable(type, t)
    \/ \E t \in TableIds : DeleteTable(t)
    \/ \E id \in EntityIds, t \in TableIds : NewEntity(id, t, 0)
    \/ \E c \in Commands : Defer(c)

NextDeferred ==
    \/ MutateDeferred
    \/ ecs_snapshot_take
    \/ ecs_snapshot_take_w_iter(LiveIds(tables))
    \/ restore_unfiltered
    \/ restore_filtered

SpecDeferred == Init /\ [][NextDeferred]_vars

(* Iteration over a held snapshot of either kind while the application       *)
(* changes which tables and entities exist.                                  *)
NextIter ==
    \/ MutateShape
    \/ ecs_snapshot_take
    \/ TakeWIter
    \/ ecs_snapshot_iter
    \/ ecs_snapshot_next

SpecIter == Init /\ [][NextIter]_vars

(* ============================== properties ============================== *)
TypeOf(ts, index, e) == ts[index[e[1]].table].type

ValueOf(ts, index, e) == ts[index[e[1]].table].rows[index[e[1]].row + 1].v

LogIndices(kind) == {k \in DOMAIN log : log[k].kind = kind}

(* C1: round-trip identity.  After ecs_snapshot_restore of a full snapshot  *)
(* the world has the live entities (id + generation) it had at capture,     *)
(* each in a table of the type it had at capture, with its captured value.  *)
C1_RoundTrip ==
    pc = "restored_unfiltered" =>
        /\ LiveEntities(eis) = LiveEntities(captured.eis)
        /\ \A e \in LiveEntities(captured.eis) :
              Located(captured.tables, captured.eis, e) =>
                /\ Located(tables, eis, e)
                /\ TypeOf(tables, eis, e) = TypeOf(captured.tables, captured.eis, e)
                /\ ValueOf(tables, eis, e) = ValueOf(captured.tables, captured.eis, e)

(* C2: the diff of restore_unfiltered runs over every table id from 0       *)
(* through the greater of the highest live table id and the leaf count - 1, *)
(* so every populated leaf has been processed when the diff loop ends.      *)
C2_DiffCoversLeaves ==
    pc = "notify" =>
        /\ idx > count
        /\ \A i \in PopulatedLeaves(snapshot) : i < idx

(* C3: snapshot-only case.  For every leaf the diff found without a live    *)
(* table, when the diff ends a table of the leaf's type exists, it is the   *)
(* table the leaf was installed in, and it holds exactly the leaf's rows    *)
(* if the leaf carried data.                                                *)
C3_SnapshotOnlyReinserted ==
    pc = "notify" =>
        \A k \in LogIndices("SnapshotOnly") :
            LET leaf == snapshot.tables[log[k].id + 1]
            IN  /\ IsLive(tables, log[k].table)
                /\ tables[log[k].table].type = leaf.type
                /\ leaf.has_data => tables[log[k].table].rows = leaf.data

(* C4: identity invariant of the both-present case.  Whenever the diff      *)
(* reaches an id that has a live non-internal table and a populated leaf,   *)
(* the live table is the table the leaf was captured from and has the       *)
(* leaf's type; the assertion never fails.                                  *)
C4_BothPresentIdentity ==
    /\ pc # "aborted"
    /\ (pc = "diff" /\ IsLive(tables, idx) /\ ~HasBuiltins(tables[idx])
            /\ LeafAt(snapshot, idx).table) =>
          /\ ~LeafAt(snapshot, idx).dangling
          /\ tables[idx].type = LeafAt(snapshot, idx).type

(* A table that is live and not internal when restore is entered and has no *)
(* populated leaf at its id: it was created after capture.                  *)
CreatedAfterCapture(t) ==
    /\ IsLive(before.tables, t)
    /\ ~HasBuiltins(before.tables[t])
    /\ ~LeafAt(before.snapshot, t).table

(* C5: when the diff of an unfiltered restore has ended, every non-internal *)
(* table created after capture was taken as world-only by the diff, no      *)
(* OnRemove was dispatched for it (its data was cleared before the table    *)
(* was deleted), and it is no longer in the table store: a table live at    *)
(* its id was made by find-or-create later in the same pass.                *)
C5_WorldOnlyDeleted ==
    pc = "notify" =>
        \A t \in TableIds :
            CreatedAfterCapture(t) =>
                /\ \E k \in LogIndices("WorldOnly") :
                      /\ log[k].id = t
                      /\ IsLive(tables, t) =>
                            \E j \in LogIndices("SnapshotOnly") :
                                j > k /\ log[j].table = t
                /\ \A k \in LogIndices("OnRemove") : log[k].table # t

C5_Witness ==
    /\ pc = "notify"
    /\ \E t \in TableIds :
          /\ CreatedAfterCapture(t)
          /\ ecs_table_count(before.tables[t]) > 0
          /\ ~IsLive(tables, t)

(* C6: no OnRemove notification is dispatched during ecs_snapshot_restore,  *)
(* in either mode.                                                          *)
C6_NoOnRemove == LogIndices("OnRemove") = {}

(* A filtered restore has moved a captured entity out of the row of another *)
(* table it was in when restore was entered.                                *)
C6_Witness ==
    /\ pc = "restored_filtered"
    /\ \E i \in PopulatedLeaves(before.snapshot) :
          \E k \in DOMAIN before.snapshot.tables[i + 1].data :
              LET e == before.snapshot.tables[i + 1].data[k].e
              IN  /\ Located(before.tables, before.eis, e)
                  /\ before.eis[e[1]].table # i

NotifiableTables(ts) ==
    {t \in TableIds : IsLive(ts, t) /\ ~HasBuiltins(ts[t]) /\ ecs_table_count(ts[t]) # 0}

(* C7: unfiltered restore dispatches no OnSet while the diff is running;    *)
(* when it has returned, exactly one OnSet was dispatched for each live     *)
(* non-internal table with rows, for rows [0, row count), and none for any  *)
(* other table.                                                             *)
C7_OnSetAfterDiff ==
    /\ pc \in {"diff", "notify"} => LogIndices("OnSet") = {}
    /\ pc = "restored_unfiltered" =>
          /\ \A t \in NotifiableTables(tables) :
                Cardinality({k \in LogIndices("OnSet") : log[k].table = t}) = 1
          /\ \A k \in LogIndices("OnSet") :
                /\ log[k].table \in NotifiableTables(tables)
                /\ log[k] = OnSet(log[k].table, 0, ecs_table_count(tables[log[k].table]))

C7_Witness ==
    /\ pc = "restored_unfiltered"
    /\ LogIndices("OnSet") # {}
    /\ \E t \in TableIds :
          IsLive(tables, t) /\ ~HasBuiltins(tables[t]) /\ ecs_table_count(tables[t]) = 0

(* C8: empty-table distinction.  A non-internal table without rows at       *)
(* capture gives a populated leaf without data, and when the diff of the    *)
(* unfiltered restore has ended a table of that leaf's type exists and has  *)
(* no rows.                                                                 *)
C8_EmptyTableRestored ==
    /\ (snapshot.live /\ snapshot.has_index) =>
          \A i \in 0 .. Len(snapshot.tables) - 1 :
              (/\ IsLive(captured.tables, i)
               /\ ~HasBuiltins(captured.tables[i])
               /\ ecs_table_count(captured.tables[i]) = 0) =>
                    /\ snapshot.tables[i + 1].table
                    /\ ~snapshot.tables[i + 1].has_data
                    /\ snapshot.tables[i + 1].type = captured.tables[i].type
    /\ pc = "notify" =>
          \A i \in PopulatedLeaves(snapshot) :
              ~snapshot.tables[i + 1].has_data =>
                  /\ TypeIsLive(tables, snapshot.tables[i + 1].type)
                  /\ ecs_table_count(
                        tables[TableOfType(tables, snapshot.tables[i + 1].type)]) = 0

(* The identifiers recorded in the leaves of a snapshot. *)
CapturedIdents(snap) ==
    UNION {{snap.tables[i + 1].data[k].e : k \in DOMAIN snap.tables[i + 1].data} :
                i \in PopulatedLeaves(snap)}

Rows(ts) == UNION {{<< t, k >> : k \in DOMAIN ts[t].rows} : t \in TableIds}

Occurrences(ts, e) == Cardinality({p \in Rows(ts) : ts[p[1]].rows[p[2]].e = e})

(* C9: filtered restore isolation.  Every entity (id + generation) that is  *)
(* live when a filtered restore is entered and is in no leaf of the         *)
(* snapshot is, when restore has returned, still alive, in the same table   *)
(* and with the same value.                                                 *)
C9_FilteredIsolation ==
    pc = "restored_filtered" =>
        \A e \in LiveEntities(before.eis) \ CapturedIdents(before.snapshot) :
            Located(before.tables, before.eis, e) =>
                /\ Located(tables, eis, e)
                /\ eis[e[1]].table = before.eis[e[1]].table
                /\ ValueOf(tables, eis, e) = ValueOf(before.tables, before.eis, e)

(* C10: when a filtered restore has returned, every entity recorded in a    *)
(* leaf with data is alive, located in a table of the leaf's type with its  *)
(* captured value, and occupies exactly one row of the world; the rows      *)
(* added to the leaf's table directly, after capture, are still in it.      *)
C10_CapturedRelocated ==
    pc = "restored_filtered" =>
        \A i \in PopulatedLeaves(before.snapshot) :
            LET leaf == before.snapshot.tables[i + 1]
            IN  /\ \A k \in DOMAIN leaf.data :
                      /\ Located(tables, eis, leaf.data[k].e)
                      /\ TypeOf(tables, eis, leaf.data[k].e) = leaf.type
                      /\ ValueOf(tables, eis, leaf.data[k].e) = leaf.data[k].v
                      /\ Occurrences(tables, leaf.data[k].e) = 1
                /\ leaf.has_data =>
                      \A k \in DOMAIN before.tables[i].rows :
                          before.tables[i].rows[k].e \notin CapturedIdents(before.snapshot)
                              => \E j \in DOMAIN tables[i].rows :
                                    tables[i].rows[j] = before.tables[i].rows[k]

(* C11: generation preservation in filtered restore.  For every identifier  *)
(* recorded in a leaf whose id was not alive when restore was entered        *)
(* (deleted since capture and never recreated), when restore has returned    *)
(* the entity index holds the identifier's generation for that id and the    *)
(* captured identifier is the live one.                                      *)
C11_GenerationPreserved ==
    pc = "restored_filtered" =>
        \A e \in CapturedIdents(before.snapshot) :
            ~before.eis[e[1]].alive =>
                /\ eis[e[1]].gen = e[2]
                /\ ecs_eis_get(eis, e)

(* A captured entity was deleted, so that the index held a later generation  *)
(* of its id, and the filtered restore has returned.                         *)
C11_Witness ==
    /\ pc = "restored_filtered"
    /\ \E e \in CapturedIdents(before.snapshot) :
          /\ ~before.eis[e[1]].alive
          /\ before.eis[e[1]].gen # e[2]

(* Number of log entries of a kind that are about leaf i. *)
Released(kind, i) == Cardinality({k \in LogIndices(kind) : log[k].id = i})

(* C12: restore consumes the snapshot.  When ecs_snapshot_restore has        *)
(* returned, in either mode, the cloned type of every populated leaf was     *)
(* released exactly once, the data of every leaf that carried data was       *)
(* either transferred into a table or released, exactly once in all, and     *)
(* the entity index clone of a full snapshot was released exactly once.      *)
C12_RestoreConsumes ==
    pc \in {"restored_unfiltered", "restored_filtered"} =>
        /\ \A i \in PopulatedLeaves(before.snapshot) :
              /\ Released("FreeType", i) = 1
              /\ before.snapshot.tables[i + 1].has_data =>
                    Released("Transfer", i) + Released("FreeData", i) = 1
        /\ \A i \in 0 .. MaxTableId :
              i \notin PopulatedLeaves(before.snapshot) =>
                    Released("FreeType", i) + Released("Transfer", i)
                        + Released("FreeData", i) = 0
        /\ Cardinality(LogIndices("FreeIndex")) =
                (IF before.snapshot.has_index THEN 1 ELSE 0)

(* C13: snapshot independence.  While a snapshot is held and no restore or   *)
(* discard is running, every populated leaf has the type its table had at    *)
(* capture and, when it has data, exactly the entities and values its table  *)
(* had at capture, whatever the application did to the world since; and the  *)
(* data of no leaf is the storage of a table.                                *)
C13_SnapshotIndependent ==
    (snapshot.live /\ pc = "idle") =>
        \A i \in PopulatedLeaves(snapshot) :
            LET leaf == snapshot.tables[i + 1]
            IN  /\ leaf.type = captured.tables[i].type
                /\ leaf.has_data = (ecs_table_count(captured.tables[i]) # 0)
                /\ leaf.data = captured.tables[i].rows
                /\ ~leaf.aliased

(* A snapshot is held whose leaf has data, and the table the leaf was taken  *)
(* from is still there and no longer holds the rows it had at capture.       *)
C13_Witness ==
    /\ snapshot.live /\ pc = "idle"
    /\ \E i \in PopulatedLeaves(snapshot) :
          /\ snapshot.tables[i + 1].has_data
          /\ ~snapshot.tables[i + 1].dangling
          /\ tables[i].rows # captured.tables[i].rows

(* C14: discard.  ecs_snapshot_free on a snapshot that was never restored,   *)
(* full or filtered, always completes; it releases the type of every         *)
(* populated leaf, the data of every leaf with data and the entity index     *)
(* clone of a full snapshot exactly once each, releases nothing else, and    *)
(* leaves the entity index, the tables and the last issued id as they were.  *)
C14_DiscardReleases ==
    /\ pc # "free_crashed"
    /\ pc = "freed" =>
          /\ \A i \in PopulatedLeaves(before.snapshot) :
                /\ Released("FreeType", i) = 1
                /\ Released("FreeData", i) =
                        (IF before.snapshot.tables[i + 1].has_data THEN 1 ELSE 0)
          /\ \A i \in 0 .. MaxTableId :
                i \notin PopulatedLeaves(before.snapshot) =>
                    Released("FreeType", i) + Released("FreeData", i) = 0
          /\ LogIndices("Transfer") = {}
          /\ Cardinality(LogIndices("FreeIndex")) =
                (IF before.snapshot.has_index THEN 1 ELSE 0)
          /\ tables = before.tables
          /\ eis = before.eis
          /\ last_id = before.last_id

(* C15: capture is read-only.  A step that takes a snapshot, of either kind, *)
(* leaves the entity index, every table's rows and values, the set of        *)
(* tables and the last issued entity id as they were.                        *)
C15_CaptureReadOnly ==
    [][(~snapshot.live /\ snapshot'.live) =>
            (tables' = tables /\ eis' = eis /\ last_id' = last_id)]_vars

(* A snapshot with data in a leaf has just been taken of a world in which    *)
(* an entity id was issued.                                                  *)
C15_Witness ==
    /\ snapshot.live /\ pc = "idle"
    /\ tables = captured.tables /\ eis = captured.eis /\ last_id = captured.last_id
    /\ last_id > 0
    /\ \E i \in PopulatedLeaves(snapshot) : snapshot.tables[i + 1].has_data

(* C16: leaf population at capture.  Capture always completes; the leaf      *)
(* array has as many leaves as the highest table id live at capture plus     *)
(* one; the leaf at index i of a full snapshot is populated exactly when a   *)
(* non-internal table with id i was live at capture, also when ids below     *)
(* the highest have no live table; the leaf at index i of a filtered         *)
(* snapshot is populated exactly when the selection yielded a non-internal   *)
(* table with id i.                                                          *)
C16_LeafPopulation ==
    /\ pc # "take_crashed"
    /\ (snapshot.live /\ pc = "idle") =>
          /\ Len(snapshot.tables) = flecs_sparse_last_id(captured.tables) + 1
          /\ \A i \in 0 .. Len(snapshot.tables) - 1 :
                snapshot.tables[i + 1].table <=>
                    /\ i \in captured.selection
                    /\ IsLive(captured.tables, i)
                    /\ ~HasBuiltins(captured.tables[i])

(* Log entries that say a table was written, deleted or notified. *)
TouchKinds == {"OnSet", "OnRemove", "SnapshotOnly", "Both", "WorldOnly", "Transfer"}

(* C17: internal tables are never captured and never diffed.  No populated   *)
(* leaf of a snapshot is a leaf of a table flagged EcsTableHasBuiltins, not  *)
(* even when the iterator of a filtered capture yields such a table; and     *)
(* throughout an unfiltered restore every internal table is live with the    *)
(* rows it had when restore was entered, and no step of the diff and no      *)
(* OnSet notification is about it.                                           *)
C17_InternalTablesSkipped ==
    /\ snapshot.live =>
          \A i \in PopulatedLeaves(snapshot) :
              /\ snapshot.tables[i + 1].type # BuiltinType
              /\ ~HasBuiltins(captured.tables[i])
    /\ pc \in {"diff", "notify", "restored_unfiltered"} =>
          \A t \in TableIds :
              (IsLive(before.tables, t) /\ HasBuiltins(before.tables[t])) =>
                  /\ tables[t] = before.tables[t]
                  /\ \A k \in DOMAIN log :
                        log[k].kind \in TouchKinds => log[k].table # t

(* An unfiltered restore has returned in a world whose internal table holds  *)
(* rows it did not hold at capture.                                          *)
C17_Witness ==
    /\ pc = "restored_unfiltered"
    /\ \E t \in TableIds :
          /\ IsLive(tables, t) /\ HasBuiltins(tables[t])
          /\ ecs_table_count(tables[t]) # 0
          /\ tables[t].rows # captured.tables[t].rows

(* C18: merge target of filtered restore.  A filtered restore always         *)
(* returns, and every leaf's data is merged into a table that is live in     *)
(* the world and has the leaf's type, also when the table the leaf was       *)
(* captured from was deleted, or deleted and its id taken by another table,  *)
(* between capture and restore.                                              *)
C18_MergeTargetOfLeafType ==
    /\ pc # "crashed"
    /\ pc \in {"merge", "restored_filtered"} =>
          \A k \in LogIndices("Transfer") :
              /\ IsLive(tables, log[k].table)
              /\ tables[log[k].table].type = before.snapshot.tables[log[k].id + 1].type

(* The leaves with data that the loop of restore_filtered has gone through. *)
MergedLeaves ==
    {i \in PopulatedLeaves(before.snapshot) :
        i < idx /\ before.snapshot.tables[i + 1].has_data}

(* C19: OnSet of filtered restore.  For every leaf with data that the loop   *)
(* has gone through, the leaf's merge is followed at once by exactly one     *)
(* OnSet, for the table merged into and as many rows as the leaf captured;   *)
(* no other OnSet is dispatched, so none for a leaf without data; and when   *)
(* a merge has just been made, the notified range starts at the row count    *)
(* the table had before the merge, ends at its last row and holds exactly    *)
(* the leaf's captured rows.                                                 *)
C19_OnSetMergedRange ==
    pc \in {"merge", "restored_filtered"} =>
        /\ \A i \in MergedLeaves : Released("Transfer", i) = 1
        /\ \A k \in LogIndices("Transfer") :
              /\ log[k].id \in MergedLeaves
              /\ k + 1 \in DOMAIN log
              /\ log[k + 1] = OnSet(log[k].table, log[k + 1].row,
                                   Len(before.snapshot.tables[log[k].id + 1].data))
        /\ Cardinality(LogIndices("OnSet")) = Cardinality(LogIndices("Transfer"))
        /\ (Len(log) >= 3 /\ log[Len(log) - 1].kind = "OnSet") =>
              LET n == log[Len(log) - 1]
                  leaf == before.snapshot.tables[log[Len(log) - 2].id + 1]
                  rows == tables[n.table].rows
              IN  /\ n.row + n.count = Len(rows)
                  /\ n.row >= 0
                  /\ SubSeq(rows, n.row + 1, n.row + n.count) = leaf.data

(* A leaf has just been merged into a table that held a row of its own. *)
C19_Witness ==
    /\ pc \in {"merge", "restored_filtered"}
    /\ Len(log) >= 3
    /\ log[Len(log) - 1].kind = "OnSet"
    /\ log[Len(log) - 1].row > 0

(* The ids named by the identifiers in the leaves of a snapshot. *)
CapturedIds(snap) == {e[1] : e \in CapturedIdents(snap)}

(* C20: snapshot kind and restore mode.  A snapshot taken without iterator   *)
(* carries an entity index clone and one taken with an iterator carries      *)
(* none; only a snapshot taken without iterator is restored by               *)
(* restore_unfiltered and only one taken with an iterator by                 *)
(* restore_filtered, which does not restore or release an index clone and    *)
(* leaves the generation and liveness of every id that no leaf names as      *)
(* they were.                                                                *)
C20_KindAndMode ==
    /\ snapshot.live => (snapshot.has_index <=> ~captured.iter)
    /\ pc \in {"diff", "notify", "restored_unfiltered", "aborted"} =>
          /\ ~captured.iter
          /\ Cardinality(LogIndices("FreeIndex")) = 1
    /\ pc \in {"merge", "restored_filtered", "crashed"} =>
          /\ captured.iter
          /\ LogIndices("FreeIndex") = {}
          /\ \A id \in EntityIds \ CapturedIds(before.snapshot) :
                /\ eis[id].gen = before.eis[id].gen
                /\ eis[id].alive = before.eis[id].alive

(* A filtered restore has returned and an entity created after capture is    *)
(* alive: the index is not the index of capture time.                        *)
C20_Witness ==
    /\ pc = "restored_filtered"
    /\ \E id \in EntityIds \ CapturedIds(before.snapshot) :
          eis[id].alive /\ ~captured.eis[id].alive
    /\ CapturedIds(before.snapshot) # {}

(* The ids ecs_new can issue next (see NewEntity): a dead id up to the last  *)
(* issued id is recycled, otherwise the id after the last issued one.        *)
IssuedNext(index, lid) ==
    IF \E d \in 1 .. lid : ~index[d].alive
    THEN {d \in 1 .. lid : ~index[d].alive}
    ELSE {lid + 1}

(* The identifiers that some row of a live table holds. *)
Referenced(ts) == {ts[p[1]].rows[p[2]].e : p \in Rows(ts)}

(* Capture records the last issued id only when it is a full capture. *)
C21_RecordedByFullOnly ==
    (snapshot.live /\ pc = "idle") =>
        snapshot.last_id = (IF captured.iter THEN 0 ELSE captured.last_id)

(* Unfiltered restore installs the clone of the index and the last issued    *)
(* id of capture time.                                                       *)
C21_UnfilteredSetsBack ==
    pc \in {"diff", "notify", "restored_unfiltered"} =>
        /\ eis = captured.eis
        /\ last_id = captured.last_id

(* An id issued after an unfiltered restore is not the id of an entity that  *)
(* was created after capture and is still in a row of a table.               *)
C21_NoReissueOfReferenced ==
    pc = "restored_unfiltered" =>
        \A e \in Referenced(tables) :
            ~ecs_eis_get(captured.eis, e) => e[1] \notin IssuedNext(eis, last_id)

(* Filtered restore leaves the last issued id alone. *)
C21_FilteredKeeps ==
    pc \in {"merge", "restored_filtered"} => last_id = before.last_id

(* C21: last issued entity id.  It is recorded into the snapshot by a full   *)
(* capture only; unfiltered restore replaces the entity index by the clone   *)
(* and sets the last issued id back to its value at capture, so that an id   *)
(* issued after restore is never the id of an entity that was created        *)
(* between capture and restore and is still referenced by a table row;       *)
(* filtered restore leaves the last issued id unchanged.                     *)
C21_LastIssuedId ==
    /\ C21_RecordedByFullOnly
    /\ C21_UnfilteredSetsBack
    /\ C21_NoReissueOfReferenced
    /\ C21_FilteredKeeps

(* The snapshot shows the tables and the entity index as they are now. *)
Reflects(snap, ts, index) ==
    /\ snap.has_index => snap.entity_index = index
    /\ \A i \in PopulatedLeaves(snap) :
          /\ snap.tables[i + 1].type = ts[i].type
          /\ snap.tables[i + 1].data = ts[i].rows

(* C22: settle before read.  Capture and restore apply every pending         *)
(* deferred command of the application before they read or write the entity  *)
(* index or a table: the step that takes a snapshot leaves no command        *)
(* pending and the snapshot shows the world with the commands applied, the   *)
(* step that enters restore leaves no command pending, and no command is     *)
(* pending while the diff, notify or merge pass runs.                        *)
C22_SettleBeforeRead ==
    [][/\ (~snapshot.live /\ snapshot'.live) =>
             /\ pending' = << >>
             /\ Reflects(snapshot', tables', eis')
       /\ (pc = "idle" /\ pc' \in {"diff", "merge"}) => pending' = << >>
       /\ pc \in {"diff", "notify", "merge"} => pending = << >>]_vars

(* A snapshot taken while a command was pending has been restored while a    *)
(* command was pending.                                                      *)
C22_Witness ==
    /\ pc \in {"restored_unfiltered", "restored_filtered"}
    /\ captured.settled > 0
    /\ before.settled > 0

(* The leaves are yielded once each, in increasing order, holes are not      *)
(* yielded, and false is returned only after every populated leaf was        *)
(* yielded and is returned from then on.                                     *)
IterationOrder ==
    /\ \A k \in DOMAIN it.yielded : it.yielded[k] \in PopulatedLeaves(snapshot)
    /\ \A j, k \in DOMAIN it.yielded : j < k => it.yielded[j] < it.yielded[k]
    /\ it.done =>
          /\ it.result = "false"
          /\ {it.yielded[k] : k \in DOMAIN it.yielded} = PopulatedLeaves(snapshot)
          /\ Len(it.yielded) = Cardinality(PopulatedLeaves(snapshot))

(* C23: snapshot iteration.  Every call of ecs_snapshot_next on an iterator  *)
(* from ecs_snapshot_iter returns; the calls yield every populated leaf      *)
(* exactly once, in increasing table-id order, skipping holes, then return   *)
(* false and keep returning false; the number of true results is the number  *)
(* of populated leaves; and a call modifies neither the snapshot's leaves    *)
(* nor the live world.                                                       *)
C23_Iteration ==
    [][(pc = "idle" /\ it.live /\ (it' # it \/ pc' # pc)) =>
          /\ pc' = "idle"
          /\ IterationOrder'
          /\ UNCHANGED << tables, eis, last_id, snapshot >>]_vars

(* C24: for every pair yielded by ecs_snapshot_next, the reported row count  *)
(* is the number of entity ids in the leaf's captured data (0 when the leaf  *)
(* has no data), whatever the live table holds at iteration time.            *)
C24_CountOfCapturedData ==
    (it.live /\ it.result = "true") =>
        /\ it.count = Len(snapshot.tables[it.table + 1].data)
        /\ it.count = Len(it.entities)

(* Every row of a live table holds an entity whose record names that table   *)
(* and row.                                                                  *)
RowsIndexed(ts, index) ==
    \A p \in Rows(ts) :
        LET e == ts[p[1]].rows[p[2]].e
        IN  /\ ecs_eis_get(index, e)
            /\ index[e[1]].table = p[1]
            /\ index[e[1]].row = p[2] - 1

(* Every entity with a location in the index is in that row of that table. *)
RecordsPlaced(ts, index) ==
    \A id \in EntityIds :
        (index[id].alive /\ index[id].table # -1) =>
            Located(ts, index, Ident(id, index[id].gen))

(* C25: entity index and tables agree after restore.  After                  *)
(* ecs_snapshot_restore in either mode, every row of every live table        *)
(* (internal tables included) holds an entity that the entity index maps to  *)
(* that table and row, and every entity with a location in the index is in   *)
(* that row of that table.                                                   *)
C25_IndexConsistent ==
    pc \in {"restored_unfiltered", "restored_filtered"} =>
        /\ RowsIndexed(tables, eis)
        /\ RecordsPlaced(tables, eis)
====
